---- MODULE Spec2Model ----
(***************************************************************************)
(* Queue_system (src/app.py): a Flask backend over one SQLite database.    *)
(* The model covers the queue table, the users table as the handlers read  *)
(* it, and the handlers join_queue, call_next, leave_queue and queue_stats *)
(* with the helpers generate_ticket_number and update_queue_positions.     *)
(*                                                                         *)
(* Granularity: every SQL statement that reads committed data is one step, *)
(* and a write together with the conn.commit() that follows it is one step *)
(* (SQLite makes the write visible to the other connections at commit).    *)
(* The statements of one request run in program order; requests of         *)
(* different worker threads interleave between statements.                 *)
(*                                                                         *)
(* Not modelled: register, login, queue_status and all_queues (they write  *)
(* no row of the queue table), and storage faults such as SQLite's busy    *)
(* timeout ("database is locked"), which only add 500 responses.           *)
(***************************************************************************)
EXTENDS Integers, Sequences, FiniteSets, TLC

\* ------------------------------------------------------------- bounds
NProcs == 2        \* worker threads serving requests at the same time
MaxTickets == 3    \* rows of the queue table, requests served one at a time
MaxRows == 2       \* rows of the queue table, requests served concurrently
MaxTime == 2       \* the clock runs 0..MaxTime (CURRENT_TIMESTAMP, in seconds)
DayLen == 2        \* seconds per calendar day
NUsers == 2        \* rows of the users table (id 1 is the default admin)

\* ---------------------------------------------------------- constants
NULL == -1         \* SQL NULL; sorts before every value under ORDER BY ... ASC
Created == 201
Ok == 200
InvalidInput == 400
PermissionDenied == 403
EmptyQueue == 404
NotInQueue == 404
AlreadyQueued == 409
Internal == 500

Procs == 1..NProcs
QueueTypes == {"general", "priority"}
\* user ids a request may carry: 0 is a missing/falsy id, NUsers + 1 resolves
\* to no row of users
UserIds == 0..(NUsers + 1)

VARIABLES
  users,   \* users table: id -> role
  queue,   \* queue table: sequence of rows, id = index (AUTOINCREMENT)
  now,     \* CURRENT_TIMESTAMP
  pc,      \* per worker: the statement it executes next
  loc,     \* per worker: the handler's local variables
  resp     \* per worker: the response returned, while pc = "done"

vars == <<users, queue, now, pc, loc, resp>>

\* ------------------------------------------------------------ helpers
NoLoc == [op |-> "none", user_id |-> 0, queue_type |-> "general",
          ticket_number |-> "", ids |-> <<>>, next_person |-> 0, waiting |-> 0]
NoResp == [op |-> "none", code |-> 0, ticket_number |-> "", position |-> NULL,
           waiting |-> NULL, completed_today |-> NULL]

Ids == 1..Len(queue)

\* date(t): the calendar day of a timestamp; date(NULL) is NULL
Date(t) == IF t = NULL THEN NULL ELSE t \div DayLen

\* SQL equality: a comparison with NULL is not true
SqlEq(a, b) == a # NULL /\ b # NULL /\ a = b

WaitingIds(q) == {i \in 1..Len(q) : q[i].status = "waiting"}

\* f"{n:03d}"
Pad3(n) ==
  IF n < 10 THEN "00" \o ToString(n)
  ELSE IF n < 100 THEN "0" \o ToString(n)
  ELSE ToString(n)

\* generate_ticket_number: COUNT(*) of today's waiting rows, plus one
TodayWaitingCount(q, t) ==
  Cardinality({i \in WaitingIds(q) : SqlEq(Date(q[i].join_time), Date(t))})

generate_ticket_number(q, t) == "TICKET-" \o Pad3(TodayWaitingCount(q, t) + 1)

\* SELECT id ... WHERE status = 'waiting' ORDER BY join_time ASC: every order
\* of the waiting ids that ascends in join_time (SQLite leaves the order of
\* rows with equal join_time unspecified)
WaitingOrders(q) ==
  LET W == WaitingIds(q)
      n == Cardinality(W)
  IN {s \in [1..n -> W] :
        /\ \A i, j \in 1..n : i # j => s[i] # s[j]
        /\ \A i, j \in 1..n : i < j => q[s[i]].join_time <= q[s[j]].join_time}

\* SetPositions with enumerate() left at its default start of 0
SetPositionsFromZero(q, ids) ==
  [i \in 1..Len(q) |->
     IF \E k \in 1..Len(ids) : ids[k] = i
     THEN [q[i] EXCEPT !.position = (CHOOSE k \in 1..Len(ids) : ids[k] = i) - 1]
     ELSE q[i]]

\* the UPDATE loop of update_queue_positions: position = idx for the idx-th id
SetPositions(q, ids) ==
  [i \in 1..Len(q) |->
     IF \E k \in 1..Len(ids) : ids[k] = i
     THEN [q[i] EXCEPT !.position = CHOOSE k \in 1..Len(ids) : ids[k] = i]
     ELSE q[i]]

\* JOIN users u ON q.user_id = u.id: rows whose user exists
Joined(q) == {i \in 1..Len(q) : q[i].user_id \in DOMAIN users}

\* NextPersons without the WHERE q.status = 'waiting'
NextPersonsAnyStatus(q) ==
  LET C == Joined(q)
  IN {i \in C : \A j \in C : q[i].position <= q[j].position}

\* WHERE q.status = 'waiting' ORDER BY q.position ASC LIMIT 1: the rows that
\* may come first (NULL positions sort first)
NextPersons(q) ==
  LET C == WaitingIds(q) \cap Joined(q)
  IN {i \in C : \A j \in C : q[i].position <= q[j].position}

\* Existing with a status literal no row ever holds
ExistingWrongStatus(q, uid) ==
  {i \in 1..Len(q) : q[i].user_id = uid /\ q[i].status = "active"}

\* SELECT * FROM queue WHERE user_id = ? AND status = 'waiting'
Existing(q, uid) == {i \in WaitingIds(q) : q[i].user_id = uid}

\* a table whose ticket_number column is not UNIQUE
NoUniqueConstraint(q, tn) == FALSE

\* ticket_number TEXT UNIQUE NOT NULL: the INSERT of a number some row holds
\* is refused
UniqueViolation(q, tn) == \E i \in 1..Len(q) : q[i].ticket_number = tn

NewTicket(uid, tn, qt, t) ==
  [user_id |-> uid, ticket_number |-> tn, queue_type |-> qt,
   status |-> "waiting", join_time |-> t, called_time |-> NULL,
   completed_time |-> NULL, position |-> NULL]

\* -------------------------------------------------------------- Init
\* init_database has created the tables and the default admin (id 1), and
\* NUsers - 1 users have registered (role 'user'); the queue table is empty.
\* No handler modelled here writes the users table.
Init ==
  /\ users = [i \in 1..NUsers |-> IF i = 1 THEN "admin" ELSE "user"]
  /\ queue = <<>>
  /\ now = 0
  /\ pc = [p \in Procs |-> "idle"]
  /\ loc = [p \in Procs |-> NoLoc]
  /\ resp = [p \in Procs |-> NoResp]

\* the handler returns: the response is recorded and the locals die.  A local
\* that no later statement of its handler reads is reset as well.
Finish(p, r) ==
  /\ pc' = [pc EXCEPT ![p] = "done"]
  /\ resp' = [resp EXCEPT ![p] = r]
  /\ loc' = [loc EXCEPT ![p] = NoLoc]

Goto(p, label, l) ==
  /\ pc' = [pc EXCEPT ![p] = label]
  /\ loc' = [loc EXCEPT ![p] = l]
  /\ UNCHANGED resp

\* ------------------------------------------------------- join_queue
\* the rows of the table plus those the running join_queue calls may still
\* insert: the model lets a join_queue pass its check only while this is
\* below the bound
Rows == Len(queue) + Cardinality({r \in Procs : pc[r] \in {"j_count", "j_insert"}})

\* the request arrives; SELECT * FROM queue WHERE user_id = ? AND status = 'waiting'
JoinCheck(p, uid, qt, max) ==
  /\ pc[p] = "idle"
  /\ \/ /\ uid = 0
        /\ Finish(p, [NoResp EXCEPT !.op = "join", !.code = InvalidInput])
     \/ /\ uid # 0
        /\ \E i \in Existing(queue, uid) :
             /\ Finish(p, [NoResp EXCEPT !.op = "join", !.code = AlreadyQueued,
                           !.ticket_number = queue[i].ticket_number,
                           !.position = queue[i].position])
     \/ /\ uid # 0
        /\ Existing(queue, uid) = {}
        /\ Rows < max
        /\ Goto(p, "j_count", [NoLoc EXCEPT !.op = "join", !.user_id = uid,
                                        !.queue_type = qt])
  /\ UNCHANGED <<users, queue, now>>

\* ticket_number = generate_ticket_number()
JoinCount(p) ==
  /\ pc[p] = "j_count"
  /\ Goto(p, "j_insert",
          [loc[p] EXCEPT !.ticket_number = generate_ticket_number(queue, now)])
  /\ UNCHANGED <<users, queue, now>>

\* INSERT INTO queue ...; conn.commit().  ticket_number is UNIQUE: a duplicate
\* raises sqlite3.IntegrityError, caught by the handler's except (500)
JoinInsert(p) ==
  /\ pc[p] = "j_insert"
  /\ \/ /\ UniqueViolation(queue, loc[p].ticket_number)
        /\ Finish(p, [NoResp EXCEPT !.op = "join", !.code = Internal])
        /\ UNCHANGED queue
     \/ /\ ~ UniqueViolation(queue, loc[p].ticket_number)
        /\ queue' = Append(queue, NewTicket(loc[p].user_id, loc[p].ticket_number,
                                            loc[p].queue_type, now))
        /\ Goto(p, "r_read", [NoLoc EXCEPT !.op = "join",
                                 !.ticket_number = loc[p].ticket_number])
  /\ UNCHANGED <<users, now>>

\* SELECT position FROM queue WHERE ticket_number = ?; return 201
JoinGetPosition(p) ==
  /\ pc[p] = "j_position"
  /\ \E i \in Ids :
       /\ queue[i].ticket_number = loc[p].ticket_number
       /\ Finish(p, [NoResp EXCEPT !.op = "join", !.code = Created,
                     !.ticket_number = loc[p].ticket_number,
                     !.position = queue[i].position])
  /\ UNCHANGED <<users, queue, now>>

\* ------------------------------------------- update_queue_positions
\* SELECT id FROM queue WHERE status = 'waiting' ORDER BY join_time ASC
RecomputeRead(p) ==
  /\ pc[p] = "r_read"
  /\ \E s \in WaitingOrders(queue) :
       Goto(p, "r_write", [loc[p] EXCEPT !.ids = s])
  /\ UNCHANGED <<users, queue, now>>

\* for idx, user in enumerate(waiting_users, start=1): UPDATE ...; conn.commit()
\* and the caller's statements up to its return (call_next and leave_queue
\* return at once, join_queue reads its position back first)
RecomputeWrite(p) ==
  /\ pc[p] = "r_write"
  /\ queue' = SetPositions(queue, loc[p].ids)
  /\ \/ /\ loc[p].op = "join"
        /\ Goto(p, "j_position", [loc[p] EXCEPT !.ids = <<>>])
     \/ /\ loc[p].op = "call"
        /\ Finish(p, [NoResp EXCEPT !.op = "call", !.code = Ok,
                      !.ticket_number = loc[p].ticket_number])
     \/ /\ loc[p].op = "leave"
        /\ Finish(p, [NoResp EXCEPT !.op = "leave", !.code = Ok])
  /\ UNCHANGED <<users, now>>

\* -------------------------------------------------------- call_next
\* call_next without the role check: every caller reaches the SELECT
CallAuthAnyCaller(p, admin_id) ==
  /\ pc[p] = "idle"
  /\ Goto(p, "c_select", [NoLoc EXCEPT !.op = "call"])
  /\ UNCHANGED <<users, queue, now>>

\* SELECT role FROM users WHERE id = ?
CallAuth(p, admin_id) ==
  /\ pc[p] = "idle"
  /\ \/ /\ ~ (admin_id \in DOMAIN users /\ users[admin_id] = "admin")
        /\ Finish(p, [NoResp EXCEPT !.op = "call", !.code = PermissionDenied])
     \/ /\ admin_id \in DOMAIN users /\ users[admin_id] = "admin"
        /\ Goto(p, "c_select", [NoLoc EXCEPT !.op = "call"])
  /\ UNCHANGED <<users, queue, now>>

\* SELECT q.*, u.full_name ... WHERE q.status = 'waiting'
\* ORDER BY q.position ASC LIMIT 1
CallSelect(p) ==
  /\ pc[p] = "c_select"
  /\ \/ /\ NextPersons(queue) = {}
        /\ Finish(p, [NoResp EXCEPT !.op = "call", !.code = EmptyQueue])
     \/ \E i \in NextPersons(queue) :
          Goto(p, "c_update", [loc[p] EXCEPT !.next_person = i,
                                 !.ticket_number = queue[i].ticket_number])
  /\ UNCHANGED <<users, queue, now>>

\* CallUpdate without the called_time = CURRENT_TIMESTAMP
CallUpdateNoStamp(p) ==
  /\ pc[p] = "c_update"
  /\ queue' = [queue EXCEPT ![loc[p].next_person] =
                 [@ EXCEPT !.status = "completed"]]
  /\ Goto(p, "r_read", [loc[p] EXCEPT !.next_person = 0])
  /\ UNCHANGED <<users, now>>

\* UPDATE queue SET status = 'completed', called_time = CURRENT_TIMESTAMP
\* WHERE id = ?; conn.commit()
CallUpdate(p) ==
  /\ pc[p] = "c_update"
  /\ queue' = [queue EXCEPT ![loc[p].next_person] =
                 [@ EXCEPT !.status = "completed", !.called_time = now]]
  /\ Goto(p, "r_read", [loc[p] EXCEPT !.next_person = 0])
  /\ UNCHANGED <<users, now>>

\* ------------------------------------------------------ leave_queue
\* LeaveRows without the AND status = 'waiting'
LeaveRowsAnyStatus(q, uid) == {i \in 1..Len(q) : q[i].user_id = uid}

\* UPDATE queue SET status = 'cancelled', completed_time = CURRENT_TIMESTAMP
\* WHERE user_id = ? AND status = 'waiting'; rowcount == 0 -> 404; conn.commit()
LeaveRows(q, uid) == {i \in WaitingIds(q) : q[i].user_id = uid}

LeaveUpdate(p, uid) ==
  /\ pc[p] = "idle"
  /\ \/ /\ uid = 0
        /\ Finish(p, [NoResp EXCEPT !.op = "leave", !.code = InvalidInput])
        /\ UNCHANGED queue
     \/ /\ uid # 0
        /\ LeaveRows(queue, uid) = {}
        /\ Finish(p, [NoResp EXCEPT !.op = "leave", !.code = NotInQueue])
        /\ UNCHANGED queue
     \/ /\ uid # 0
        /\ LeaveRows(queue, uid) # {}
        /\ queue' = [i \in 1..Len(queue) |->
                       IF i \in LeaveRows(queue, uid)
                       THEN [queue[i] EXCEPT !.status = "cancelled",
                                             !.completed_time = now]
                       ELSE queue[i]]
        /\ Goto(p, "r_read", [NoLoc EXCEPT !.op = "leave"])
  /\ UNCHANGED <<users, now>>

\* ------------------------------------------------------ queue_stats
\* SELECT COUNT(*) FROM queue WHERE status = "waiting"
WaitingCount(q) == Cardinality(WaitingIds(q))

\* SELECT COUNT(*) FROM queue
\* WHERE status = "completed" AND date(completed_time) = date('now')
CompletedTodayCount(q, t) ==
  Cardinality({i \in 1..Len(q) : /\ q[i].status = "completed"
                                 /\ SqlEq(Date(q[i].completed_time), Date(t))})

StatsWaiting(p) ==
  /\ pc[p] = "idle"
  /\ Goto(p, "s_completed", [NoLoc EXCEPT !.op = "stats",
                                          !.waiting = WaitingCount(queue)])
  /\ UNCHANGED <<users, queue, now>>

StatsCompleted(p) ==
  /\ pc[p] = "s_completed"
  /\ Finish(p, [NoResp EXCEPT !.op = "stats", !.code = Ok,
                !.waiting = loc[p].waiting,
                !.completed_today = CompletedTodayCount(queue, now)])
  /\ UNCHANGED <<users, queue, now>>

\* ----------------------------------------------------- environment
\* the response is delivered; the worker takes the next request
Return(p) ==
  /\ pc[p] = "done"
  /\ pc' = [pc EXCEPT ![p] = "idle"]
  /\ resp' = [resp EXCEPT ![p] = NoResp]
  /\ UNCHANGED <<users, queue, now, loc>>

\* a second passes
Tick ==
  /\ now < MaxTime
  /\ now' = now + 1
  /\ UNCHANGED <<users, queue, pc, loc, resp>>

\* the statements a running request executes next, and its return
Step(p) ==
  \/ JoinCount(p)
  \/ JoinInsert(p)
  \/ JoinGetPosition(p)
  \/ RecomputeRead(p)
  \/ RecomputeWrite(p)
  \/ CallSelect(p)
  \/ CallUpdate(p)
  \/ Return(p)

\* requests of all workers interleave statement by statement; join_queue is
\* called with the default queue_type
Next ==
  \/ Tick
  \/ \E p \in Procs :
       \/ \E uid \in UserIds : JoinCheck(p, uid, "general", MaxRows)
       \/ \E admin_id \in UserIds : CallAuth(p, admin_id)
       \/ \E uid \in UserIds : LeaveUpdate(p, uid)
       \/ Step(p)

Spec == Init /\ [][Next]_vars

\* one request at a time, each served from its first statement to its return
Worker == CHOOSE p \in Procs : TRUE

NextSeq ==
  \/ Tick
  \/ \E uid \in UserIds, qt \in QueueTypes : JoinCheck(Worker, uid, qt, MaxTickets)
  \/ \E admin_id \in UserIds : CallAuth(Worker, admin_id)
  \/ \E uid \in UserIds : LeaveUpdate(Worker, uid)
  \/ StatsWaiting(Worker)
  \/ StatsCompleted(Worker)
  \/ Step(Worker)

SpecSeq == Init /\ [][NextSeq]_vars

\* one request at a time, every request that was started runs to its return
\* (a handler has no loop but the UPDATE loop of update_queue_positions, over
\* a finite result), and the admin keeps calling call_next: the worker is
\* idle again and again, and among these occasions the admin's call is made
\* again and again
AdminCall == \E a \in DOMAIN users : users[a] = "admin" /\ CallAuth(Worker, a)

NextFair ==
  \/ Tick
  \/ \E uid \in UserIds : JoinCheck(Worker, uid, "general", MaxRows)
  \/ \E admin_id \in UserIds : CallAuth(Worker, admin_id)
  \/ \E uid \in UserIds : LeaveUpdate(Worker, uid)
  \/ Step(Worker)

SpecFair ==
  /\ Init
  /\ [][NextFair]_vars
  /\ WF_vars(Step(Worker))
  /\ SF_vars(AdminCall)

\* ================================================================ claims
Quiescent == \A p \in Procs : pc[p] \in {"idle", "done"}

WaitingOf(u) == {i \in WaitingIds(queue) : queue[i].user_id = u}

\* C1 (SpecSeq): whenever no operation is under way, the positions of the
\* waiting tickets are exactly 1..N, N the number of waiting tickets, no two
\* waiting tickets share a position, and a waiting ticket with an earlier
\* join_time has a smaller position.
C1_PositionContiguity ==
  Quiescent =>
    LET W == WaitingIds(queue)
    IN /\ {queue[i].position : i \in W} = 1..Cardinality(W)
       /\ \A i, j \in W : i # j => queue[i].position # queue[j].position
       /\ \A i, j \in W : queue[i].join_time < queue[j].join_time
                            => queue[i].position < queue[j].position

\* C1 witness: an operation has completed leaving two waiting tickets that
\* joined at different times and a ticket that left the waiting set
C1_Witness ==
  /\ pc[Worker] = "done"
  /\ \E i, j \in WaitingIds(queue) : queue[i].join_time < queue[j].join_time
  /\ \E i \in Ids : queue[i].status # "waiting"

\* C2 (Spec): in every reachable state, every user has at most one ticket
\* with status waiting.
C2_SingleActiveTicket ==
  \A u \in UserIds : Cardinality(WaitingOf(u)) <= 1

\* C3 (Spec): the ticket a call_next selects, and then completes, has the
\* smallest join_time among the tickets that are waiting when it selects.
C3_FIFOSelection ==
  [][\A p \in Procs :
       (pc[p] = "c_select" /\ pc'[p] = "c_update")
         => /\ loc'[p].next_person \in WaitingIds(queue)
            /\ \A j \in WaitingIds(queue) :
                 queue[loc'[p].next_person].join_time <= queue[j].join_time]_vars

\* C4 (SpecSeq): a join_queue call of a user who holds a waiting ticket, with
\* any queue_type, answers AlreadyQueued with the ticket number and position
\* of that ticket, inserts nothing and leaves the table as it is (so the same
\* call repeated finds the same table and gives the same answer).
C4_IdempotentDuplicateJoin ==
  [][\A p \in Procs, u \in UserIds, qt \in QueueTypes :
       (JoinCheck(p, u, qt, MaxTickets) /\ WaitingOf(u) # {})
         => /\ pc'[p] = "done"
            /\ resp'[p].op = "join"
            /\ resp'[p].code = AlreadyQueued
            /\ \A i \in WaitingOf(u) :
                 /\ resp'[p].ticket_number = queue[i].ticket_number
                 /\ resp'[p].position = queue[i].position
            /\ queue' = queue]_vars

\* C4 witness: a duplicate join has been answered with the second position
C4_Witness ==
  /\ pc[Worker] = "done"
  /\ resp[Worker].op = "join"
  /\ resp[Worker].code = AlreadyQueued
  /\ resp[Worker].position = 2
  /\ \E i \in Ids : queue[i].queue_type = "priority"

\* every ticket of the table joined on the current day
AllJoinedToday == \A i \in Ids : Date(queue[i].join_time) = Date(now)

\* C5 (SpecSeq): with every ticket of the table joined today, a join_queue
\* call of an existing user without a waiting ticket, made when k of today's
\* tickets are waiting, computes the number TICKET-(k+1) padded to 3 digits,
\* inserts a waiting ticket bearing it (it never ends in a ticket-number
\* conflict) and returns that number.
C5_DailyTicketNumbering ==
  [][\A p \in Procs :
       /\ (pc[p] = "j_count" /\ pc'[p] # "j_count")
            => loc'[p].ticket_number
                 = "TICKET-" \o Pad3(TodayWaitingCount(queue, now) + 1)
       /\ (pc[p] = "j_insert" /\ pc'[p] # "j_insert"
             /\ loc[p].user_id \in DOMAIN users /\ AllJoinedToday)
            => /\ Len(queue') = Len(queue) + 1
               /\ queue'[Len(queue')].status = "waiting"
               /\ queue'[Len(queue')].ticket_number = loc[p].ticket_number
               /\ pc'[p] # "done"
       /\ (pc[p] = "j_position" /\ pc'[p] # "j_position")
            => /\ resp'[p].code = Created
               /\ resp'[p].ticket_number = loc[p].ticket_number]_vars

\* nothing but today's joins of distinct existing users has touched the table
OnlyJoins ==
  /\ AllJoinedToday
  /\ \A i \in Ids : queue[i].status = "waiting" /\ queue[i].user_id \in DOMAIN users
  /\ \A i, j \in Ids : i # j => queue[i].user_id # queue[j].user_id
  /\ \A p \in Procs : loc[p].op \in {"none", "join"} /\ resp[p].op \in {"none", "join"}

\* C6 (Spec): while the only requests made are today's join_queue calls of
\* distinct existing users, every such call inserts its ticket (none ends in
\* a conflict), the tickets bear distinct numbers, and once all calls have
\* returned the positions are exactly 1..N.
C6_ConcurrentJoinRace ==
  /\ [](OnlyJoins =>
          /\ \A i, j \in Ids : i # j => queue[i].ticket_number # queue[j].ticket_number
          /\ Quiescent => {queue[i].position : i \in Ids} = 1..Len(queue))
  /\ [][\A p \in Procs :
          (/\ OnlyJoins
           /\ pc[p] = "j_insert" /\ pc'[p] # "j_insert"
           /\ loc[p].user_id \in DOMAIN users
           /\ \A i \in Ids : queue[i].user_id # loc[p].user_id)
            => /\ pc'[p] # "done"
               /\ Len(queue') = Len(queue) + 1]_vars

\* C7 (Spec): a ticket is created waiting; its status changes only from
\* waiting to completed (by call_next) or from waiting to cancelled (by
\* leave_queue); a completed or cancelled ticket keeps its status; no row is
\* deleted.
C7_MonotoneStatus ==
  [][/\ Len(queue') >= Len(queue)
     /\ \A i \in 1..Len(queue') :
          IF i \in Ids
          THEN queue'[i].status # queue[i].status
                 => /\ queue[i].status = "waiting"
                    /\ queue'[i].status \in {"completed", "cancelled"}
                    /\ queue'[i].status = "completed"
                         => \E p \in Procs : pc[p] = "c_update"
                    /\ queue'[i].status = "cancelled"
                         => \E p \in Procs : pc[p] = "idle" /\ loc'[p].op = "leave"
          ELSE queue'[i].status = "waiting"]_vars

\* C8 (Spec): no two rows of the queue table ever bear the same ticket
\* number, whatever their status or day; a join_queue whose computed number
\* is already in the table inserts nothing and leaves the table as it is.
C8_TicketNumberUnique ==
  /\ [](\A i, j \in Ids : i # j => queue[i].ticket_number # queue[j].ticket_number)
  /\ [][\A p \in Procs :
          (pc[p] = "j_insert" /\ pc'[p] # "j_insert"
             /\ \E i \in Ids : queue[i].ticket_number = loc[p].ticket_number)
            => queue' = queue /\ resp'[p].code = Internal]_vars

\* C8 witness: a join whose number was taken has been refused, the table
\* holding two tickets
C8_Witness ==
  /\ \E p \in Procs : pc[p] = "done" /\ resp[p].op = "join" /\ resp[p].code = Internal
  /\ Len(queue) = 2

\* the tickets call_next completed (stamping called_time) on the current day
CompletedByCallNextToday ==
  {i \in Ids : /\ queue[i].status = "completed"
               /\ queue[i].called_time # NULL
               /\ queue[i].called_time \div DayLen = now \div DayLen}

\* C9 (SpecSeq): queue_stats returns the number of waiting tickets and the
\* number of tickets call_next completed on the current day.
C9_StatsCorrect ==
  \A p \in Procs :
    (pc[p] = "done" /\ resp[p].op = "stats")
      => /\ resp[p].waiting = Cardinality(WaitingIds(queue))
         /\ resp[p].completed_today = Cardinality(CompletedByCallNextToday)

\* C10 (Spec): a call_next of an admin that finds no waiting ticket answers
\* EmptyQueue, which is not the internal error, and changes no row.
C10_EmptyQueueSignal ==
  [][\A p \in Procs :
       (pc[p] = "c_select" /\ pc'[p] # "c_select" /\ WaitingIds(queue) = {})
         => /\ pc'[p] = "done"
            /\ resp'[p].op = "call"
            /\ resp'[p].code = EmptyQueue
            /\ resp'[p].code # Internal
            /\ queue' = queue]_vars

\* C10 witness: EmptyQueue has been answered over a table that holds a
\* ticket, none waiting
C10_Witness ==
  /\ \E p \in Procs : pc[p] = "done" /\ resp[p].op = "call" /\ resp[p].code = EmptyQueue
  /\ queue # <<>>
  /\ WaitingIds(queue) = {}

\* C11 (Spec): a call_next whose admin_id is not the id of a user with role
\* admin answers PermissionDenied whatever the table holds and changes no row;
\* a ticket becomes completed only in the UPDATE of a call_next, a statement
\* reached only from the SELECT of a call_next, which is reached only through
\* the role check of a caller who is an admin.
C11_AdminOnlyCallNext ==
  [][/\ \A p \in Procs, a \in UserIds :
          (CallAuth(p, a) /\ ~ (a \in DOMAIN users /\ users[a] = "admin"))
            => /\ pc'[p] = "done"
               /\ resp'[p].op = "call"
               /\ resp'[p].code = PermissionDenied
               /\ queue' = queue
     /\ \A i \in Ids :
          (queue[i].status # "completed" /\ queue'[i].status = "completed")
            => \E p \in Procs : /\ pc[p] = "c_update" /\ pc'[p] # "c_update"
                                /\ loc[p].next_person = i
     /\ \A p \in Procs :
          /\ (pc[p] # "c_update" /\ pc'[p] = "c_update") => pc[p] = "c_select"
          /\ (pc[p] # "c_select" /\ pc'[p] = "c_select")
               => \E a \in DOMAIN users : users[a] = "admin" /\ CallAuth(p, a)]_vars

\* C11 witness: a call_next has been refused over a table that holds a
\* waiting ticket, and a ticket has been completed
C11_Witness ==
  /\ \E p \in Procs : /\ pc[p] = "done" /\ resp[p].op = "call"
                      /\ resp[p].code = PermissionDenied
  /\ WaitingIds(queue) # {}
  /\ \E i \in Ids : queue[i].status = "completed"

\* C12 (SpecSeq): a leave_queue of a user who holds no waiting ticket (none
\* at all, or only completed and cancelled ones) answers NotInQueue and
\* leaves every row of the table as it is.
C12_LeaveWhenAbsent ==
  [][\A p \in Procs, u \in UserIds :
       (LeaveUpdate(p, u) /\ u # 0 /\ WaitingOf(u) = {})
         => /\ pc'[p] = "done"
            /\ resp'[p].op = "leave"
            /\ resp'[p].code = NotInQueue
            /\ queue' = queue]_vars

\* C12 witness: NotInQueue has been answered when every user id a request
\* can carry had a ticket, all of them completed or cancelled
C12_Witness ==
  /\ pc[Worker] = "done"
  /\ resp[Worker].op = "leave"
  /\ resp[Worker].code = NotInQueue
  /\ WaitingIds(queue) = {}
  /\ \A u \in UserIds \ {0} : \E i \in Ids : queue[i].user_id = u
  /\ \E i \in Ids : queue[i].status = "completed"
  /\ \E i \in Ids : queue[i].status = "cancelled"

\* C13 (SpecSeq): a join_queue whose user_id is the id of no row of users
\* inserts no ticket, so in every reachable state every row of the queue
\* table bears the id of an existing user.
C13_JoinUnknownUser ==
  \A i \in Ids : queue[i].user_id \in DOMAIN users

\* the table holds tickets of distinct existing users, joined at distinct times
DistinctJoins ==
  \A i, j \in Ids :
    /\ queue[i].user_id \in DOMAIN users
    /\ i # j => /\ queue[i].user_id # queue[j].user_id
                /\ queue[i].join_time # queue[j].join_time

\* C14 (Spec): with requests interleaving statement by statement, whenever
\* every request that was started has returned (its update_queue_positions
\* included), the positions of the waiting tickets are exactly 1..N and
\* ascend with join_time: no update_queue_positions writes positions it
\* computed from a waiting set that another request has changed since.
\* Checked for tables whose tickets belong to distinct existing users and
\* joined at distinct times, so that neither a second waiting ticket of one
\* user nor a join_time tie accounts for a violation.
C14_ConcurrentContiguity ==
  (DistinctJoins /\ \A p \in Procs : pc[p] \in {"idle", "done"})
    => /\ {queue[i].position : i \in WaitingIds(queue)}
            = 1..Cardinality(WaitingIds(queue))
       /\ \A i, j \in WaitingIds(queue) :
            queue[i].join_time < queue[j].join_time
              => queue[i].position < queue[j].position

\* C15 (Spec): in every reachable state a waiting ticket has called_time and
\* completed_time NULL, a completed ticket has called_time set, a cancelled
\* ticket has completed_time set and called_time NULL; the call_next UPDATE
\* that completes a ticket stamps called_time with the current time, the
\* leave_queue UPDATE that cancels one stamps completed_time with it; a
\* ticket's join_time is the time of its INSERT and never changes.
C15_TransitionTimestamps ==
  /\ [](\A i \in Ids :
          /\ queue[i].status = "waiting"
               => queue[i].called_time = NULL /\ queue[i].completed_time = NULL
          /\ queue[i].status = "completed" => queue[i].called_time # NULL
          /\ queue[i].status = "cancelled"
               => queue[i].completed_time # NULL /\ queue[i].called_time = NULL)
  /\ [][\A i \in 1..Len(queue') :
          IF i \in Ids
          THEN /\ queue'[i].join_time = queue[i].join_time
               /\ (queue[i].status # "completed" /\ queue'[i].status = "completed")
                    => queue'[i].called_time = now
               /\ (queue[i].status # "cancelled" /\ queue'[i].status = "cancelled")
                    => queue'[i].completed_time = now
          ELSE queue'[i].join_time = now]_vars

\* C15 witness: after the clock has advanced, the table holds a completed
\* and a cancelled ticket
C15_Witness ==
  /\ now > 0
  /\ \E i \in Ids : queue[i].status = "completed" /\ queue[i].called_time > 0
  /\ \E i \in Ids : queue[i].status = "cancelled" /\ queue[i].completed_time > 0

\* C16 (SpecSeq): with requests served one at a time, the
\* update_queue_positions of a join_queue leaves the position of every
\* ticket that was waiting before the INSERT as it was, and the call returns
\* the number of waiting tickets as the new ticket's position, also when the
\* new ticket's join_time equals that of a ticket already waiting.
C16_JoinAppendsAtTail ==
  [][/\ (pc[Worker] = "r_write" /\ loc[Worker].op = "join"
           /\ pc'[Worker] # "r_write")
          => \A i \in WaitingIds(queue) \ {Len(queue)} :
               queue'[i].position = queue[i].position
     /\ (pc[Worker] = "j_position" /\ pc'[Worker] # "j_position")
          => /\ resp'[Worker].code = Created
             /\ resp'[Worker].position = Cardinality(WaitingIds(queue))]_vars

\* the numeric part of a ticket number: the n that f"TICKET-{n:03d}" formatted
Num(tn) == CHOOSE n \in 1..(MaxTickets + 1) : tn = "TICKET-" \o Pad3(n)

\* the tickets created on calendar day d
CreatedOn(d) == {i \in Ids : Date(queue[i].join_time) = d}

\* C17 (Spec): the ticket a join_queue inserts bears a number greater than
\* that of every ticket created earlier on the same calendar day, and in
\* every reachable state the numbers of the tickets created on one day are
\* exactly 1..M, M the number of tickets created that day.
C17_IncreasingTicketNumbers ==
  /\ [][Len(queue') = Len(queue) + 1
          => \A i \in CreatedOn(Date(queue'[Len(queue')].join_time)) :
               Num(queue[i].ticket_number) < Num(queue'[Len(queue')].ticket_number)]_vars
  /\ [](\A d \in 0..(MaxTime \div DayLen) :
          {Num(queue[i].ticket_number) : i \in CreatedOn(d)}
            = 1..Cardinality(CreatedOn(d)))

\* the tickets whose status a step changes
StatusChanged == {i \in Ids : queue'[i].status # queue[i].status}

\* C18 (Spec): with requests interleaving, the UPDATE of a successful
\* leave_queue of user u changes the status of exactly one ticket, a ticket
\* of u; the UPDATE of a successful call_next changes the status of exactly
\* one ticket; no statement of a join_queue changes the status of an existing
\* ticket; no step changes the ticket_number, user_id, queue_type or
\* join_time of an existing ticket; and no step reverses the position order
\* of two tickets that are waiting, with a position, before and after it.  Checked for tables
\* whose tickets belong to distinct existing users and joined at distinct
\* times.
C18_FrameOfMutations ==
  [][DistinctJoins =>
       /\ \A p \in Procs :
            /\ (pc[p] = "idle" /\ loc'[p].op = "leave")
                 => /\ Cardinality(StatusChanged) = 1
                    /\ \E u \in UserIds : LeaveUpdate(p, u)
                         /\ \A i \in StatusChanged : queue[i].user_id = u
            /\ (pc[p] = "c_update" /\ pc'[p] # "c_update")
                 => Cardinality(StatusChanged) = 1
            /\ (loc[p].op = "join" /\ loc'[p] # loc[p]) => StatusChanged = {}
       /\ \A i \in Ids :
            /\ queue'[i].ticket_number = queue[i].ticket_number
            /\ queue'[i].user_id = queue[i].user_id
            /\ queue'[i].queue_type = queue[i].queue_type
            /\ queue'[i].join_time = queue[i].join_time
       /\ \A i, j \in WaitingIds(queue) \cap WaitingIds(queue') :
            (queue[i].position # NULL /\ queue[i].position < queue[j].position)
              => queue'[i].position < queue'[j].position]_vars

\* C19 (SpecSeq): with requests served one at a time, when the UPDATE of a
\* call_next completes a ticket b, no ticket that joined before b is still
\* waiting.
C19_ServiceOrder ==
  [][\A a, b \in Ids :
       (/\ queue[b].status # "completed" /\ queue'[b].status = "completed"
        /\ queue[a].join_time < queue[b].join_time)
         => queue[a].status # "waiting"]_vars

\* C20 (SpecFair): with requests served one at a time and the admin calling
\* call_next again and again, every ticket that is waiting eventually is
\* waiting no more; and the ticket a successful call_next completes is the
\* waiting ticket of least position, so that a ticket at position p that
\* does not leave is completed by the p-th successful call_next at the
\* latest.
C20_NoStarvation ==
  /\ \A i \in 1..MaxRows :
       (i \in Ids /\ queue[i].status = "waiting")
         ~> (i \in Ids /\ queue[i].status # "waiting")
  /\ [][\A a, b \in Ids :
          (/\ queue[b].status # "completed" /\ queue'[b].status = "completed"
           /\ queue[a].status = "waiting")
            => queue[b].position <= queue[a].position]_vars

====
